---- MODULE Spec2Model ----
(***************************************************************************)
(* Model of src/src/routes/auth.js: the protect middleware and the routes  *)
(* /register, /login, /me, /logout, /admin/login and /admin/logout, run    *)
(* by concurrent requests against the User store.  A handler is cut into   *)
(* steps at the awaits that reach the store; everything between two such   *)
(* awaits is one atomic step.                                              *)
(***************************************************************************)
EXTENDS Integers, FiniteSets, Sequences, TLC

\* ---------------------------------------------------------------- bounds
MaxUsers == 2       \* user documents ever created (ObjectIds handed out)
MaxTokens == 1      \* tokens signed over a run
ExpiresIn == 1      \* JWT_EXPIRES_IN: one tick of the model clock is 7d
MaxTime == ExpiresIn

\* ---------------------------------------------------------------- values
Undefined == "undefined"
Emails == {"admin@x", "u@x"}
Passwords == {"pw1", "pw2"}
DefaultRole == "customer"

\* What bcrypt leaves in the document: never the cleartext.  An absent
\* password leaves no hash.
Hash(p) == IF p = Undefined THEN <<>> ELSE <<"bcrypt", p>>

\* user.comparePassword(candidate)
comparePassword(doc, candidate) == doc.password = Hash(candidate)

\* The result of a lookup that matches nothing.
Null == [id |-> 0]

\* ---------------------------------------------------------------- tokens
\* A JWT as the client holds it: the signed payload {id, iat, exp} and
\* whether the signature is the one JWT_SECRET produces.
NoToken == [fmt |-> "undefined", payload |-> <<>>, sig |-> ""]
Garbage == [fmt |-> "garbage", payload |-> <<>>, sig |-> ""]

\* jwt.sign of a payload whose id was read from a field the document does
\* not have: the subject is lost.
JwtSignNoSubject(id, t) ==
    [fmt |-> "jwt", payload |-> [id |-> 0, iat |-> t, exp |-> t + ExpiresIn],
     sig |-> "secret"]

\* jwt.sign({ id: user._id }, JWT_SECRET, { expiresIn: JWT_EXPIRES_IN })
JwtSign(id, t) ==
    [fmt |-> "jwt", payload |-> [id |-> id, iat |-> t, exp |-> t + ExpiresIn],
     sig |-> "secret"]

\* The same payload signed with another key.
Forge(tok) == [tok EXCEPT !.sig = "other"]

\* jwt.verify with the expiry check left out (ignoreExpiration).
JwtVerifyIgnoreExpiration(tok, t) ==
    /\ tok.fmt = "jwt"
    /\ tok.sig = "secret"

\* jwt.verify(token, JWT_SECRET) returns (TRUE) or throws (FALSE).
JwtVerify(tok, t) ==
    /\ tok.fmt = "jwt"
    /\ tok.sig = "secret"
    /\ t < tok.payload.exp

\* The Authorization header: absent, or "<scheme>" or "<scheme> <cred>".
NoHeader == [scheme |-> "", parts |-> 0, cred |-> NoToken]
Header(scheme, cred) ==
    [scheme |-> scheme, parts |-> IF cred = NoToken THEN 1 ELSE 2, cred |-> cred]

\* protect, lines 10-13: the token is the second space-separated part of
\* a header that starts with Bearer.
ExtractToken(auth) ==
    IF auth.scheme = "Bearer" /\ auth.parts >= 2 THEN auth.cred ELSE NoToken

\* ---------------------------------------------------------------- state
VARIABLES
    users,      \* the User collection: a set of documents
    nextId,     \* the next ObjectId the store hands out
    now,        \* the clock jwt reads
    issued,     \* the tokens the server has signed (what clients can hold)
    loggedOut,  \* history: tokens a logout route has answered 200 for
    inflight,   \* requests suspended at an await, by slot
    last,       \* the request the step just taken has completed, with its
                \* response (Idle when the step completed none)
    orderStatus,    \* the status of the order (NoOrder before it is created)
    statusHistory,  \* the order's sequence of {status, changedBy}
    session,        \* the status of the order's Checkout Session
    events,         \* the externalEventIds of the Webhook Event Records
    calls,          \* the updateStatus calls, by slot: suspended or ended
    hooks,          \* webhook deliveries suspended after their insert
    applied,        \* history: how often each event has been processed
    olast           \* the error kind or result the step just taken returned

authVars == <<users, nextId, now, issued, loggedOut, inflight, last>>

orderVars ==
    <<orderStatus, statusHistory, session, events, calls, hooks, applied, olast>>

vars == <<authVars, orderVars>>

\* Two requests can be suspended at an await at the same time.
Slots == {1, 2}

\* ---------------------------------------------------------------- store
\* The User model (models/User) is not among the sources; the store is
\* modelled from the data-store interface of the specification: lookup by
\* key, a unique index on email, the password kept as a hash only, role
\* defaulting to customer.  An absent email is one more key of the index.
Admin0 ==
    [id |-> 1, email |-> "admin@x", password |-> Hash("pw1"),
     role |-> "admin", phone |-> "+919876543210"]

\* User.findOne({ email })
findOne(email) ==
    IF \E u \in users : u.email = email
    THEN CHOOSE u \in users : u.email = email
    ELSE Null

\* User.findOne({ email, role: 'admin' })
findOneAdmin(email) ==
    IF \E u \in users : u.email = email /\ u.role = "admin"
    THEN CHOOSE u \in users : u.email = email /\ u.role = "admin"
    ELSE Null

\* User.findById(id)
findById(id) ==
    IF \E u \in users : u.id = id
    THEN CHOOSE u \in users : u.id = id
    ELSE Null

\* The unique index on email refuses a second document with the same key.
DuplicateKey(email) == \E u \in users : u.email = email

\* The document User.create({email, password, firstName, lastName, phone})
\* stores: the fields register passes, the password hashed, the default role.
NewDoc(id, email, password, phone) ==
    [id |-> id, email |-> email, password |-> Hash(password),
     role |-> DefaultRole, phone |-> phone]

\* User.create(fields): the document the store makes of the fields it is
\* given.  A role among them is kept; an absent one takes the default.
StoredDoc(id, fields) ==
    [NewDoc(id, fields.email, fields.password, fields.phone) EXCEPT
        !.role = IF fields.role = Undefined THEN DefaultRole ELSE fields.role]

\* .select('-password')
SelectNoPassword(doc) ==
    IF doc = Null THEN Null
    ELSE [f \in (DOMAIN doc) \ {"password"} |-> doc[f]]

\* ---------------------------------------------------------------- requests
NoBody ==
    [email |-> Undefined, password |-> Undefined, phone |-> Undefined,
     dateOfBirth |-> Undefined, role |-> Undefined]

\* History: what the token of a request was when the request arrived.
TokenState(auth, t) ==
    LET tok == ExtractToken(auth) IN
    IF tok = NoToken THEN "missing"
    ELSE IF tok.fmt # "jwt" THEN "malformed"
    ELSE IF tok.sig # "secret" THEN "wrongly signed"
    ELSE IF tok.payload.exp <= t THEN "expired"
    ELSE "valid"

\* A request as it arrives: no response yet (status 0).
NewReq(route, body, auth) ==
    [route |-> route, body |-> body, auth |-> auth, pc |-> "start",
     tokenState |-> TokenState(auth, now),
     afterLogout |-> ExtractToken(auth) \in loggedOut,
     dbFailed |-> FALSE, reqUser |-> Null,
     handlerInvoked |-> FALSE,
     status |-> 0, message |-> "", token |-> NoToken, user |-> Null]

\* An empty slot; also the value of last before any response.
Idle ==
    [route |-> "", body |-> NoBody, auth |-> NoHeader, pc |-> "idle",
     tokenState |-> "missing", afterLogout |-> FALSE,
     dbFailed |-> FALSE, reqUser |-> Null,
     handlerInvoked |-> FALSE,
     status |-> 0, message |-> "", token |-> NoToken, user |-> Null]

\* res.status(code).json({status, message, token, data: {user}})
Respond(r, code, message, token, user) ==
    [r EXCEPT !.pc = "done", !.status = code, !.message = message,
              !.token = token, !.user = user]

\* The whole document sent as the user object.
PublicUserWholeDoc(doc) == doc

\* The user object of the register, login and admin-login bodies.
PublicUser(doc) ==
    [id |-> doc.id, email |-> doc.email, role |-> doc.role]

\* The user object of the /me body.
ProfileUser(doc) ==
    [id |-> doc.id, email |-> doc.email, role |-> doc.role, phone |-> doc.phone]

Unauthorized == "Not authorized to access this route"

Guarded == {"/me", "/logout", "/admin/logout"}

\* last is an output: nothing reads it.  The outcome of a completed
\* request is observed (Observe) before the next step is taken.
Ready == last = Idle

FreeSlot(s) ==
    /\ inflight[s].pc = "idle"
    /\ \A t \in Slots : t < s => inflight[t].pc # "idle"

\* ---------------------------------------------------------------- inputs
\* Register bodies, for each email: the complete body, the body without
\* dateOfBirth, the body without phone and dateOfBirth, and the complete
\* body with a role added.
CompleteBody(e) ==
    [email |-> e, password |-> "pw1", phone |-> "+919876543210",
     dateOfBirth |-> "2000-01-01", role |-> Undefined]

RegisterBodies ==
    UNION {{CompleteBody(e),
            [CompleteBody(e) EXCEPT !.dateOfBirth = Undefined],
            [CompleteBody(e) EXCEPT !.dateOfBirth = Undefined, !.phone = Undefined],
            [CompleteBody(e) EXCEPT !.role = "admin"]} : e \in Emails}

\* Login bodies: each email with each password, and the body that lacks
\* both.
LoginBodies ==
    {NoBody}
    \cup {[NoBody EXCEPT !.email = e, !.password = p] : e \in Emails, p \in Passwords}

\* What a client can put in the Authorization header: nothing, another
\* scheme, Bearer with no credential, Bearer with a string that is no JWT,
\* a token the server signed, or that token's payload under another key.
AuthHeaders ==
    {NoHeader, Header("Basic", Garbage), Header("Bearer", NoToken),
     Header("Bearer", Garbage)}
    \cup {Header("Bearer", t) : t \in issued}
    \cup {Header("Bearer", Forge(t)) : t \in issued}

\* Room left for one more signed token.
TokenRoom(tok) == Cardinality(issued \cup {tok}) <= MaxTokens

\* ---------------------------------------------------------------- protect
\* protect, lines 8-31.  The result has pc "next" when next() is called,
\* and is the 401 response otherwise.  fail: the store lookup throws.
protect(r, fail) ==
    LET token == ExtractToken(r.auth) IN
    IF token = NoToken
    THEN Respond(r, 401, Unauthorized, NoToken, Null)
    ELSE IF ~JwtVerify(token, now)
    THEN Respond(r, 401, Unauthorized, NoToken, Null)
    ELSE IF fail
    THEN Respond([r EXCEPT !.dbFailed = TRUE], 401, Unauthorized, NoToken, Null)
    ELSE [r EXCEPT !.pc = "next",
                   !.reqUser = SelectNoPassword(findById(token.payload.id))]

\* ---------------------------------------------------------------- register
StoreError == "store error"

\* POST /register, lines 34-44 and 71-76: the request arrives and the
\* handler awaits User.findOne({ email }).  None of the fields is checked
\* for presence; dateOfBirth and role are not read at all.
RegisterFindOne(s, body) ==
    /\ Ready
    /\ FreeSlot(s)
    /\ \E fail \in BOOLEAN :
        LET r == NewReq("/register", body, NoHeader) IN
        IF fail
        THEN /\ last' = Respond([r EXCEPT !.dbFailed = TRUE, !.handlerInvoked = TRUE],
                                400, StoreError, NoToken, Null)
             /\ UNCHANGED inflight
        ELSE IF findOne(body.email) # Null
        THEN /\ last' = Respond([r EXCEPT !.handlerInvoked = TRUE],
                                400, "User already exists", NoToken, Null)
             /\ UNCHANGED inflight
        ELSE /\ inflight' = [inflight EXCEPT
                                ![s] = [r EXCEPT !.pc = "create", !.handlerInvoked = TRUE]]
             /\ last' = Idle
    /\ UNCHANGED <<users, nextId, now, issued, loggedOut>>
    /\ UNCHANGED orderVars

\* User.create not awaited: its rejection never reaches the catch block.
CreateThrewNever(stored) == FALSE

\* Whether await User.create(...) throws into the catch block, given
\* whether the store has stored the document.
CreateThrew(stored) == ~stored

\* The body's role handed on to User.create.
CreateFieldsWithRole(body) ==
    [email |-> body.email, password |-> body.password, phone |-> body.phone,
     role |-> body.role]

\* The fields register hands to User.create, lines 46-52: those it has
\* destructured from the body on line 36.  role is not one of them.
CreateFields(body) ==
    [email |-> body.email, password |-> body.password, phone |-> body.phone,
     role |-> Undefined]

\* POST /register, lines 46-76: User.create, then jwt.sign and the 201.
RegisterCreate(s) ==
    /\ Ready
    /\ inflight[s].pc = "create"
    /\ \E fail \in BOOLEAN :
        LET r == inflight[s]
            doc == StoredDoc(nextId, CreateFields(r.body))
            stored == ~fail /\ ~DuplicateKey(r.body.email)
            token == JwtSign(doc.id, now)
        IN  /\ stored => nextId <= MaxUsers /\ TokenRoom(token)
            /\ users' = IF stored THEN users \cup {doc} ELSE users
            /\ nextId' = IF stored THEN nextId + 1 ELSE nextId
            /\ IF CreateThrew(stored)
               THEN /\ last' = Respond([r EXCEPT !.dbFailed = fail], 400,
                                       IF fail THEN StoreError ELSE "E11000 duplicate key",
                                       NoToken, Null)
                    /\ UNCHANGED issued
               ELSE /\ last' = Respond(r, 201, "", token, PublicUser(doc))
                    /\ issued' = issued \cup {token}
    /\ inflight' = [inflight EXCEPT ![s] = Idle]
    /\ UNCHANGED <<now, loggedOut>>
    /\ UNCHANGED orderVars

\* ---------------------------------------------------------------- login
\* A rejection that tells an unknown email from a wrong password.
LoginRejectionTelling(user) ==
    IF user = Null THEN "User not found" ELSE "Incorrect password"

\* The message of the 401 of lines 92-97, the same whether the lookup
\* found no user or the password did not match.
LoginRejection(user) == "Invalid credentials"

\* POST /login, lines 80-122.
Login(body) ==
    /\ Ready
    /\ \E fail \in BOOLEAN :
        LET r == [NewReq("/login", body, NoHeader) EXCEPT !.handlerInvoked = TRUE]
            user == findOne(body.email)
            token == JwtSign(user.id, now)
        IN  IF body.email = Undefined \/ body.password = Undefined
            THEN /\ last' = Respond(r, 400, "Please provide email and password",
                                    NoToken, Null)
                 /\ UNCHANGED issued
            ELSE IF fail
            THEN /\ last' = Respond([r EXCEPT !.dbFailed = TRUE], 400, StoreError,
                                    NoToken, Null)
                 /\ UNCHANGED issued
            ELSE IF user = Null \/ ~comparePassword(user, body.password)
            THEN /\ last' = Respond(r, 401, LoginRejection(user), NoToken, Null)
                 /\ UNCHANGED issued
            ELSE /\ TokenRoom(token)
                 /\ last' = Respond(r, 200, "", token, PublicUser(user))
                 /\ issued' = issued \cup {token}
    /\ UNCHANGED <<users, nextId, now, loggedOut, inflight>>
    /\ UNCHANGED orderVars

\* The lookup without the role filter.
AdminLoginFindAnyRole(email) == findOne(email)

\* The lookup of line 179: by email and role 'admin'.
AdminLoginFind(email) == findOneAdmin(email)

\* POST /admin/login, lines 168-210.
AdminLogin(body) ==
    /\ Ready
    /\ \E fail \in BOOLEAN :
        LET r == [NewReq("/admin/login", body, NoHeader) EXCEPT !.handlerInvoked = TRUE]
            user == AdminLoginFind(body.email)
            token == JwtSign(user.id, now)
        IN  IF body.email = Undefined \/ body.password = Undefined
            THEN /\ last' = Respond(r, 400, "Please provide email and password",
                                    NoToken, Null)
                 /\ UNCHANGED issued
            ELSE IF fail
            THEN /\ last' = Respond([r EXCEPT !.dbFailed = TRUE], 500,
                                    "Error during admin login", NoToken, Null)
                 /\ UNCHANGED issued
            ELSE IF user = Null \/ ~comparePassword(user, body.password)
            THEN /\ last' = Respond(r, 401, "Invalid admin credentials", NoToken, Null)
                 /\ UNCHANGED issued
            ELSE /\ TokenRoom(token)
                 /\ last' = Respond(r, 200, "", token, PublicUser(user))
                 /\ issued' = issued \cup {token}
    /\ UNCHANGED <<users, nextId, now, loggedOut, inflight>>
    /\ UNCHANGED orderVars

\* ---------------------------------------------------------------- guarded routes
\* A logout that refuses a token it has already logged out.
logoutHandlerOnce(r) ==
    IF r.afterLogout
    THEN Respond([r EXCEPT !.handlerInvoked = TRUE], 409, "Already logged out",
                 NoToken, Null)
    ELSE Respond([r EXCEPT !.handlerInvoked = TRUE], 200, "Logged out successfully",
                 NoToken, Null)

\* The handler of POST /logout, lines 160-165: it reads nothing of the
\* request and always answers 200.
logoutHandler(r) ==
    Respond([r EXCEPT !.handlerInvoked = TRUE], 200, "Logged out successfully",
            NoToken, Null)

\* POST /logout: protect, then the handler in the same turn.
Logout(auth) ==
    /\ Ready
    /\ \E fail \in BOOLEAN :
        LET p == protect(NewReq("/logout", NoBody, auth), fail) IN
        IF p.pc = "next"
        THEN /\ last' = logoutHandler(p)
             /\ loggedOut' = IF last'.status = 200
                             THEN loggedOut \cup {ExtractToken(auth)}
                             ELSE loggedOut
        ELSE /\ last' = p
             /\ UNCHANGED loggedOut
    /\ UNCHANGED <<users, nextId, now, issued, inflight>>
    /\ UNCHANGED orderVars

\* The role test left out.
IsAdminAlways(user) == TRUE

\* The test of line 214.
IsAdmin(user) == user.role = "admin"

\* What becomes of a request whose async handler throws outside any try:
\* the promise is rejected.  A router that ignores the promise never
\* answers (status 0); one that forwards the rejection to the default
\* error handler answers 500.
Rejections == {0, 500}

\* POST /admin/logout, lines 213-225: protect, then the handler, which has
\* no await and runs in the same turn.  Reading role of an absent req.user
\* throws a TypeError.
AdminLogout(auth) ==
    /\ Ready
    /\ \E fail \in BOOLEAN, rejected \in Rejections :
        LET p == protect(NewReq("/admin/logout", NoBody, auth), fail)
            h == [p EXCEPT !.handlerInvoked = TRUE]
        IN  IF p.pc # "next"
            THEN /\ last' = p
                 /\ UNCHANGED loggedOut
            ELSE IF p.reqUser = Null
            THEN /\ last' = IF rejected = 0
                            THEN [h EXCEPT !.pc = "hung"]
                            ELSE Respond(h, 500, "Internal Server Error", NoToken, Null)
                 /\ UNCHANGED loggedOut
            ELSE IF ~IsAdmin(p.reqUser)
            THEN /\ last' = Respond(h, 403, "Access denied. Admin only.", NoToken, Null)
                 /\ UNCHANGED loggedOut
            ELSE /\ last' = Respond(h, 200, "Admin logged out successfully",
                                    NoToken, Null)
                 /\ loggedOut' = loggedOut \cup {ExtractToken(auth)}
    /\ UNCHANGED <<users, nextId, now, issued, inflight>>
    /\ UNCHANGED orderVars

\* GET /me, lines 125-127: protect, then the handler up to its await.
\* Reading _id of an absent req.user throws inside the try: 500.
MeProtect(s, auth) ==
    /\ Ready
    /\ FreeSlot(s)
    /\ \E fail \in BOOLEAN :
        LET p == protect(NewReq("/me", NoBody, auth), fail)
            h == [p EXCEPT !.handlerInvoked = TRUE]
        IN  IF p.pc # "next"
            THEN /\ last' = p
                 /\ UNCHANGED inflight
            ELSE IF p.reqUser = Null
            THEN /\ last' = Respond(h, 500, "Error retrieving user profile",
                                    NoToken, Null)
                 /\ UNCHANGED inflight
            ELSE /\ inflight' = [inflight EXCEPT ![s] = [h EXCEPT !.pc = "me"]]
                 /\ last' = Idle
    /\ UNCHANGED <<users, nextId, now, issued, loggedOut>>
    /\ UNCHANGED orderVars

\* GET /me, lines 127-156: the second lookup and the response.
Me(s) ==
    /\ Ready
    /\ inflight[s].pc = "me"
    /\ \E fail \in BOOLEAN :
        LET r == inflight[s]
            user == SelectNoPassword(findById(r.reqUser.id))
        IN  last' =
                IF fail
                THEN Respond([r EXCEPT !.dbFailed = TRUE], 500,
                             "Error retrieving user profile", NoToken, Null)
                ELSE IF user = Null
                THEN Respond(r, 404, "User not found", NoToken, Null)
                ELSE Respond(r, 200, "", NoToken, ProfileUser(user))
    /\ inflight' = [inflight EXCEPT ![s] = Idle]
    /\ UNCHANGED <<users, nextId, now, issued, loggedOut>>
    /\ UNCHANGED orderVars

\* ---------------------------------------------------------------- environment
\* The clock advances.
Tick ==
    /\ Ready
    /\ now < MaxTime
    /\ now' = now + 1
    /\ last' = Idle
    /\ UNCHANGED <<users, nextId, issued, loggedOut, inflight>>
    /\ UNCHANGED orderVars

\* A document leaves the collection (another part of the application, or
\* an operator, deletes it): what makes findById return null on lines 23
\* and 127-128.
StoreRemove(u) ==
    /\ Ready
    /\ u \in users
    /\ users' = users \ {u}
    /\ last' = Idle
    /\ UNCHANGED <<nextId, now, issued, loggedOut, inflight>>
    /\ UNCHANGED orderVars

\* The outcome of the request just completed is observed.
Observe ==
    /\ last # Idle
    /\ last' = Idle
    /\ UNCHANGED <<users, nextId, now, issued, loggedOut, inflight>>
    /\ UNCHANGED orderVars

\* ---------------------------------------------------------------- orders
\* The order, checkout and webhook routes are not among the sources.  They
\* are modelled from sections 4.4, 4.5 and 5 of the specification: one
\* order, its Checkout Session and the Webhook Event Records, with each
\* operation cut at its calls to the store.
Statuses == {"pending", "confirmed", "processing", "completed", "cancelled"}

Terminal == {"completed", "cancelled"}

NoOrder == "none"

\* A table that lets every status follow every other.
LegalSuccessorAny(from, to) == TRUE

\* The transition table of section 4.4.
LegalSuccessor(from, to) ==
    \/ from = "pending" /\ to \in {"confirmed", "cancelled"}
    \/ from = "confirmed" /\ to \in {"processing", "cancelled"}
    \/ from = "processing" /\ to = "completed"

\* Callers, as the identity layer resolves them: the owner of the order,
\* another customer and a staff member.
Owner == [id |-> 2, role |-> "customer"]

Staff == [id |-> 3, role |-> "staff"]

Callers == {Owner, [id |-> 4, role |-> "customer"], Staff}

\* The statuses a caller asks for.
Targets == Statuses \ {"pending"}

\* changedBy of a transition the payment gateway's event has made.
Gateway == [id |-> 0, role |-> "gateway"]

CanUpdateStatus(caller) == caller.role \in {"staff", "admin"}

\* Two updateStatus calls can be under way at the same time.  A call that
\* has ended stays in its slot, with its outcome, until the slot is used
\* again.
CallSlots == {1, 2}

NoCall ==
    [pc |-> "idle", caller |-> 0, newStatus |-> "", seen |-> "",
     peers |-> {}, outcome |-> ""]

FreeCall(c) ==
    /\ calls[c].pc # "read"
    /\ \A d \in CallSlots : d < c => calls[d].pc = "read"

Entry(status, caller) == [status |-> status, changedBy |-> caller.id]

\* createOrder, step 4: the order is persisted in pending with its first
\* history entry.  (Steps 1-3, the line items and the price, are not
\* modelled.)
CreateOrder ==
    /\ orderStatus = NoOrder
    /\ orderStatus' = "pending"
    /\ statusHistory' = <<Entry("pending", Owner)>>
    /\ olast' = "created"
    /\ UNCHANGED <<session, events, calls, hooks, applied>>
    /\ UNCHANGED authVars

\* updateStatus up to its read of the order: Forbidden unless the caller
\* is staff or admin, NotFound if the order is absent; otherwise the call
\* holds the status it has read.  peers (history): the calls suspended
\* between their read and their write at that moment; the call that was
\* in the slot before is no peer of any call any more.
UpdateStatusRead(c, caller, newStatus) ==
    /\ FreeCall(c)
    /\ IF ~CanUpdateStatus(caller)
       THEN olast' = "Forbidden" /\ UNCHANGED calls
       ELSE IF orderStatus = NoOrder
       THEN olast' = "NotFound" /\ UNCHANGED calls
       ELSE /\ calls' = [d \in CallSlots |->
                    IF d = c
                    THEN [pc |-> "read", caller |-> caller.id,
                          newStatus |-> newStatus, seen |-> orderStatus,
                          peers |-> {e \in CallSlots : calls[e].pc = "read"},
                          outcome |-> ""]
                    ELSE [calls[d] EXCEPT !.peers = @ \ {c}]]
            /\ olast' = ""
    /\ UNCHANGED <<orderStatus, statusHistory, session, events, hooks, applied>>
    /\ UNCHANGED authVars

\* A write that does not compare.
WriteUnconditionally(seen) == TRUE

\* The condition of the conditional write of section 5: the status is
\* still the one the transition has read.
CompareAndSwap(seen) == orderStatus = seen

\* updateStatus from its check to its end: InvalidTransition if newStatus
\* is no legal successor of the status read; otherwise the conditional
\* write, which appends the history entry on success and fails with
\* InvalidTransition when the status has changed since the read.
UpdateStatusWrite(c) ==
    /\ calls[c].pc = "read"
    /\ LET call == calls[c]
           ok == /\ LegalSuccessor(call.seen, call.newStatus)
                 /\ CompareAndSwap(call.seen)
       IN  /\ calls' = [calls EXCEPT ![c] =
                    [call EXCEPT !.pc = "done",
                                 !.outcome = IF ok THEN "ok" ELSE "InvalidTransition"]]
           /\ orderStatus' = IF ok THEN call.newStatus ELSE orderStatus
           /\ statusHistory' =
                IF ok
                THEN Append(statusHistory,
                            [status |-> call.newStatus, changedBy |-> call.caller])
                ELSE statusHistory
           /\ olast' = ""
    /\ UNCHANGED <<session, events, hooks, applied>>
    /\ UNCHANGED authVars

\* processCheckout: NotFound and Forbidden as for getOrder; AlreadyProcessed
\* unless the order is pending and has no session under way; a gateway
\* failure is surfaced without mutating anything; on success the Checkout
\* Session is created in initiated, as one conditional write.
ProcessCheckout(caller, gatewayFails) ==
    /\ IF orderStatus = NoOrder
       THEN olast' = "NotFound" /\ UNCHANGED session
       ELSE IF caller.role = "customer" /\ caller.id # Owner.id
       THEN olast' = "Forbidden" /\ UNCHANGED session
       ELSE IF orderStatus # "pending" \/ session \in {"initiated", "confirmed"}
       THEN olast' = "AlreadyProcessed" /\ UNCHANGED session
       ELSE IF gatewayFails
       THEN olast' = "PaymentGatewayError" /\ UNCHANGED session
       ELSE olast' = "initiated" /\ session' = "initiated"
    /\ UNCHANGED <<orderStatus, statusHistory, events, calls, hooks, applied>>
    /\ UNCHANGED authVars

\* The events the gateway delivers: an externalEventId and a type.
PaymentSucceeded == [id |-> "evt_1", type |-> "payment_intent.succeeded"]

Events ==
    {PaymentSucceeded,
     [id |-> "evt_2", type |-> "payment_intent.payment_failed"],
     [id |-> "evt_3", type |-> "charge.refunded"]}

EventIds == {e.id : e \in Events}

\* The event types acted upon.
AllowList == {"payment_intent.succeeded", "payment_intent.payment_failed"}

\* Two deliveries can be suspended between insert and processing.
HookSlots == {1, 2}

NoHook == [pc |-> "idle", event |-> [id |-> "", type |-> ""]]

FreeHook(h) ==
    /\ hooks[h].pc = "idle"
    /\ \A g \in HookSlots : g < h => hooks[g].pc # "idle"

\* A lookup that never finds the record.
AlreadyRecordedNever(id) == FALSE

\* The result of the atomic insert-if-absent on the Webhook Event Record:
\* whether a record with this externalEventId was there already.
AlreadyRecorded(id) == id \in events

\* handleWebhook up to its insert: InvalidSignature if the signature does
\* not verify; success without processing if the externalEventId is
\* recorded already; otherwise the record is inserted.
HandleWebhook(h, e, signatureValid) ==
    /\ FreeHook(h)
    /\ IF ~signatureValid
       THEN olast' = "InvalidSignature" /\ UNCHANGED <<events, hooks>>
       ELSE IF AlreadyRecorded(e.id)
       THEN olast' = "AlreadyRecorded" /\ UNCHANGED <<events, hooks>>
       ELSE /\ events' = events \cup {e.id}
            /\ hooks' = [hooks EXCEPT ![h] = [pc |-> "process", event |-> e]]
            /\ olast' = ""
    /\ UNCHANGED <<orderStatus, statusHistory, session, calls, applied>>
    /\ UNCHANGED authVars

\* handleWebhook, the processing of an event it has recorded.  A succeeded
\* payment confirms the initiated session and takes the order from pending
\* to confirmed; a failed one fails the session; a type outside the
\* allow-list is acknowledged and ignored.
ProcessEvent(h) ==
    /\ hooks[h].pc = "process"
    /\ LET e == hooks[h].event
           acts == e.type \in AllowList /\ session = "initiated"
           confirms == acts /\ e.type = "payment_intent.succeeded"
           moves == confirms /\ orderStatus = "pending"
       IN  /\ applied' = [applied EXCEPT ![e.id] = @ + 1]
           /\ session' = IF confirms THEN "confirmed"
                         ELSE IF acts THEN "failed"
                         ELSE session
           /\ orderStatus' = IF moves THEN "confirmed" ELSE orderStatus
           /\ statusHistory' = IF moves
                               THEN Append(statusHistory, Entry("confirmed", Gateway))
                               ELSE statusHistory
           /\ olast' = IF e.type \in AllowList THEN "processed" ELSE "ignored"
    /\ hooks' = [hooks EXCEPT ![h] = NoHook]
    /\ UNCHANGED <<events, calls>>
    /\ UNCHANGED authVars

\* ---------------------------------------------------------------- specification
Init ==
    /\ users = {Admin0}
    /\ nextId = 2
    /\ now = 0
    /\ issued = {}
    /\ loggedOut = {}
    /\ inflight = [s \in Slots |-> Idle]
    /\ last = Idle
    /\ orderStatus = NoOrder
    /\ statusHistory = <<>>
    /\ session = "none"
    /\ events = {}
    /\ calls = [c \in CallSlots |-> NoCall]
    /\ hooks = [h \in HookSlots |-> NoHook]
    /\ applied = [id \in EventIds |-> 0]
    /\ olast = ""

Next ==
    \/ \E s \in Slots, body \in RegisterBodies : RegisterFindOne(s, body)
    \/ \E s \in Slots : RegisterCreate(s)
    \/ \E body \in LoginBodies : Login(body)
    \/ \E body \in LoginBodies : AdminLogin(body)
    \/ \E auth \in AuthHeaders : Logout(auth)
    \/ \E auth \in AuthHeaders : AdminLogout(auth)
    \/ \E s \in Slots, auth \in AuthHeaders : MeProtect(s, auth)
    \/ \E s \in Slots : Me(s)
    \/ Tick
    \/ \E u \in users : StoreRemove(u)
    \/ Observe

Spec == Init /\ [][Next]_vars

\* The order, checkout and webhook operations.
\* The order under updateStatus calls, with the one other source of a
\* transition: a checkout that the gateway's event confirms.
OrdersNext ==
    \/ CreateOrder
    \/ \E c \in CallSlots, caller \in Callers, newStatus \in Targets :
            UpdateStatusRead(c, caller, newStatus)
    \/ \E c \in CallSlots : UpdateStatusWrite(c)
    \/ ProcessCheckout(Owner, FALSE)
    \/ \E h \in HookSlots : HandleWebhook(h, PaymentSucceeded, TRUE)
    \/ \E h \in HookSlots : ProcessEvent(h)

SpecOrders == Init /\ [][OrdersNext]_vars

\* The checkout of the order and the deliveries of the gateway's events.
WebhookNext ==
    \/ CreateOrder
    \/ \E caller \in Callers, gatewayFails \in BOOLEAN :
            ProcessCheckout(caller, gatewayFails)
    \/ \E h \in HookSlots, e \in Events, signatureValid \in BOOLEAN :
            HandleWebhook(h, e, signatureValid)
    \/ \E h \in HookSlots : ProcessEvent(h)

SpecWebhook == Init /\ [][WebhookNext]_vars

\* ---------------------------------------------------------------- claims
\* Every request the state holds: the one just completed and those
\* suspended at an await.
Requests == {last} \cup {inflight[s] : s \in Slots}

RequiredFields == {"email", "password", "phone", "dateOfBirth"}

Absent(body) == {f \in RequiredFields : body[f] = Undefined}

\* C1: once a logout route has answered 200 for a token, every later
\* request that presents the token to a guarded route is answered 401, even
\* though the token still verifies.
C1_LogoutRevokes ==
    \A r \in Requests :
        (r.route \in Guarded /\ r.afterLogout /\ r.tokenState = "valid")
            => (~r.handlerInvoked /\ r.pc = "done" /\ r.status = 401)

\* C2: a guarded request whose token verifies and whose subject the store
\* no longer holds is answered 401 and its route handler is not invoked.
C2_AbsentSubjectRejected ==
    \A r \in Requests :
        (r.route \in Guarded /\ r.pc # "start" /\ r.tokenState = "valid"
            /\ ~r.dbFailed /\ r.reqUser = Null)
            => (~r.handlerInvoked /\ r.pc = "done" /\ r.status = 401)

\* C3: a guarded request whose token is missing, malformed, wrongly signed
\* or expired is answered 401 with the one generic body, whichever the
\* failure, and its route handler is not invoked.
C3_InvalidTokenRejected ==
    \A r \in Requests :
        (r.route \in Guarded /\ r.tokenState # "valid")
            => /\ ~r.handlerInvoked
               /\ r.pc = "done"
               /\ r.status = 401
               /\ r.message = Unauthorized
               /\ r.token = NoToken
               /\ r.user = Null

C3_Witness ==
    /\ last.route \in Guarded
    /\ last.tokenState = "expired"
    /\ last.status = 401

\* C4: at most one identity exists per email, and a register request is
\* answered 201 only for the identity it has itself stored under its email:
\* of two registrations racing on one email, the one whose create the unique
\* index refuses is not answered 201.
C4_EmailUnique ==
    /\ \A u, v \in users : u.email = v.email => u = v
    /\ (last.route = "/register" /\ last.status = 201)
        => /\ last.token # NoToken
           /\ \E u \in users :
                /\ u.id = last.user.id
                /\ u.email = last.body.email
                /\ u.id = nextId - 1

\* The loser of a race: it passed the existence check and its create was
\* refused.
C4_Witness ==
    /\ last.route = "/register"
    /\ last.status = 400
    /\ last.message = "E11000 duplicate key"
    /\ \E u \in users : u.email = last.body.email

\* C5: on POST /admin/logout, when the lookup of protect returns: a valid
\* token of an existing non-admin user is answered 403, a missing or invalid
\* token is answered 401 and never 403, and 200 is answered only to a valid
\* token of an existing admin.
C5_ForbiddenIsNotUnauthorized ==
    (last.route = "/admin/logout") =>
        LET subject == findById(ExtractToken(last.auth).payload.id) IN
        /\ (last.tokenState # "valid") => last.status = 401
        /\ (last.tokenState = "valid" /\ ~last.dbFailed
                /\ subject # Null /\ subject.role # "admin")
            => last.status = 403
        /\ (last.status = 200)
            => (last.tokenState = "valid" /\ subject # Null /\ subject.role = "admin")
        /\ (last.status = 403) => last.tokenState = "valid"

C5_Witness ==
    /\ last.route = "/admin/logout"
    /\ last.status = 403

\* C6: a register request that lacks one of email, password, phone and
\* dateOfBirth is rejected with 400, is issued no token and creates no
\* identity.  (Messages are opaque here: that the 400 names the absent
\* fields is not part of the formula.)
C6_RequiredFields ==
    (last.route = "/register" /\ Absent(last.body) # {})
        => /\ last.status = 400
           /\ last.token = NoToken
           /\ ~\E u \in users : u.id = last.user.id

\* C7: no response body holds a password field, and the identity protect
\* attaches to the request holds none.
C7_NoPasswordSent ==
    \A r \in Requests :
        /\ "password" \notin DOMAIN r.user
        /\ "password" \notin DOMAIN r.reqUser

\* A login that has loaded the document with its password and answered 200.
C7_Witness ==
    /\ last.route = "/login"
    /\ last.status = 200
    /\ last.user # Null

C9_StoreFailureIs5xx ==
    last.dbFailed => (last.status >= 500 /\ last.status \notin {400, 401})

\* C10: a logout with a token that has already been logged out and still
\* verifies, when the lookup of protect returns, is answered 200 again and
\* leaves the store, the tokens and the suspended requests as they were.
C10_LogoutIdempotent ==
    [][(last'.route = "/logout" /\ last'.afterLogout
            /\ last'.tokenState = "valid" /\ ~last'.dbFailed)
        => /\ last'.status = 200
           /\ users' = users
           /\ nextId' = nextId
           /\ issued' = issued
           /\ loggedOut' = loggedOut
           /\ inflight' = inflight]_vars

C10_Witness ==
    /\ last.route = "/logout"
    /\ last.afterLogout
    /\ last.status = 200

\* C14: every request is answered: once its handler has run to its end,
\* by returning or by throwing, the request has received a response.
C14_EveryRequestAnswered ==
    \A r \in Requests : r.pc \in {"done", "hung"} => r.status # 0

\* C15: POST /admin/login issues a token only for an identity that has the
\* email, the role admin and the password; when both fields are given and
\* the lookup returns, every other request (unknown email, wrong password,
\* right password of a non-admin) gets the one 401 without a token.
C15_AdminLoginAdminsOnly ==
    (last.route = "/admin/login") =>
        LET admin == \E u \in users : /\ u.email = last.body.email
                                      /\ u.role = "admin"
                                      /\ comparePassword(u, last.body.password)
        IN  /\ (last.token # NoToken) => (admin /\ last.status = 200)
            /\ (last.body.email # Undefined /\ last.body.password # Undefined
                    /\ ~last.dbFailed /\ ~admin)
                => /\ last.status = 401
                   /\ last.message = "Invalid admin credentials"
                   /\ last.token = NoToken
                   /\ last.user = Null

\* A non-admin identity presenting its own password.
C15_Witness ==
    /\ last.route = "/admin/login"
    /\ last.status = 401
    /\ \E u \in users : /\ u.email = last.body.email
                        /\ u.role # "admin"
                        /\ comparePassword(u, last.body.password)

\* C16: every identity registration creates has the default role, whatever
\* role the request body names, and the 201 reports that role.
C16_RegisterCannotEscalate ==
    /\ \A u \in users : u.id # Admin0.id => u.role = DefaultRole
    /\ (last.route = "/register" /\ last.status = 201)
        => last.user.role = DefaultRole

\* A registration whose body asked for the admin role.
C16_Witness ==
    /\ last.route = "/register"
    /\ last.status = 201
    /\ last.body.role = "admin"
    /\ \E u \in users : u.id = last.user.id

\* C17: a login with both fields, when the lookup returns, is answered the
\* same whether the email is unknown or the password is wrong: 401 with
\* 'Invalid credentials', no token and no user; and it changes nothing
\* in the store.
C17_LoginHidesExistence ==
    [][(/\ last'.route = "/login"
        /\ last'.body.email # Undefined /\ last'.body.password # Undefined
        /\ ~last'.dbFailed
        /\ \/ findOne(last'.body.email) = Null
           \/ ~comparePassword(findOne(last'.body.email), last'.body.password))
        => /\ last'.status = 401
           /\ last'.message = "Invalid credentials"
           /\ last'.token = NoToken
           /\ last'.user = Null
           /\ users' = users
           /\ nextId' = nextId
           /\ issued' = issued]_vars

\* A wrong password for a registered email.
C17_Witness ==
    /\ last.route = "/login"
    /\ last.status = 401
    /\ \E u \in users : u.email = last.body.email

\* An unknown email.
C17_WitnessUnknown ==
    /\ last.route = "/login"
    /\ last.status = 401
    /\ ~\E u \in users : u.email = last.body.email

\* The graph of claim C11.
GraphEdges ==
    {<<"pending", "confirmed">>, <<"pending", "cancelled">>,
     <<"confirmed", "processing">>, <<"confirmed", "cancelled">>,
     <<"processing", "completed">>}

Concurrent(a, b) == a \in calls[b].peers \/ b \in calls[a].peers

C13_WitnessSequential ==
    /\ olast = "AlreadyRecorded"
    /\ applied[PaymentSucceeded.id] = 1
    /\ session = "confirmed"

\* A delivery with an invalid signature.
C13_WitnessSignature ==
    /\ olast = "InvalidSignature"
    /\ events = {}

====
